---- MODULE Spec2Model ----
(***************************************************************************)
(* Southern-Hemisphere-Seasons: the season resolver and the override       *)
(* watcher of the server-mod generations kept in the repository:           *)
(*   "v140"  v1.4.0, probabilistic storms, raid-start hooks                *)
(*   "v13"   v1.3, seven seasons, enableStorms, postDBLoad / postSptLoad   *)
(*   "v130"  v1.3.0, five seasons (Early Spring and Storm disabled)        *)
(*   "v120"  v1.2.0, four seasons, weather tables, preSptLoad only         *)
(* The host's weather configuration (overrideSeason), the mod's            *)
(* configuration and the wall clock are the state; every host callback is  *)
(* one action.                                                             *)
(***************************************************************************)
EXTENDS Integers, FiniteSets, Sequences

VARIABLES
    gen,                  \* which generation of the mod is installed
    file,                 \* content of config/config.jsonc
    fikaPresent,          \* whether the host has FIKA ("FikaConfig" resolves)
    date,                 \* the wall clock: [month |-> 1..12, day |-> 1..31]
    leap,                 \* whether the current year is a leap year
    uptime,               \* days elapsed since the process started
    phase,                \* host lifecycle: "start", "loaded", "running", "crashed"
    config,               \* this.config / this.modConfig
    overrideSeason,       \* weatherConfig.overrideSeason, the shared slot
    finalSelectedSeason,  \* this.finalSelectedSeason (v1.3)
    weatherConfig,        \* v1.4.0: this.weatherConfig is stored (non-null)
    hook,                 \* installed route or wrapper: "none", "fika", "spt";
                          \* v1.2.0: "offlineEnd"
    weather,              \* the host's weather table (v1.2.0 replaces it)
    forceWarned,          \* the loader warned about an invalid forceSeason
    report,               \* what the last postSptLoad conflict check reported
    calls,                \* number of season resolutions made by the mod
    lastOp                \* the callback that ran last

vars == <<gen, file, fikaPresent, date, leap, uptime, phase, config, overrideSeason,
          finalSelectedSeason, weatherConfig, hook, weather, forceWarned, report, calls,
          lastOp>>

---------------------------------------------------------------------------
(* Bounds of the model. *)

\* The uniform draw Math.random() takes the values k / RandomSteps, k in 0..RandomSteps-1;
\* a stormChance is counted in the same unit, so RandomSteps stands for 1.0.
RandomSteps == 10
\* Largest integer an operator or another mod is seen to write (forceSeason, slot).
MaxRaw == 7
\* How many days the clock is followed after the process started.
MaxDays == 1
\* How many season resolutions are followed.
MaxCalls == 2

---------------------------------------------------------------------------
(* JavaScript values: null, undefined, strings, booleans and numbers.  A    *)
(* number is n + h/2, so that non-integers (2.5) are told from integers.    *)

Null      == [t |-> "null",      n |-> 0, h |-> 0]
Undefined == [t |-> "undefined", n |-> 0, h |-> 0]
Str       == [t |-> "string",    n |-> 0, h |-> 0]
Num(k)    == [t |-> "number",    n |-> k, h |-> 0]
Half(k)   == [t |-> "number",    n |-> k, h |-> 1]
Bool(b)   == [t |-> "boolean",   n |-> IF b THEN 1 ELSE 0, h |-> 0]

\* typeof v === "number"
IsNumber(v) == v.t = "number"
\* v < k, v >= k, v <= k for a number v and an integer k
Lt(v, k) == v.n < k
Ge(v, k) == v.n >= k
Le(v, k) == IF v.h = 1 THEN v.n < k ELSE v.n <= k
\* a number that is an integer of lo..hi
IsIntIn(v, lo, hi) == IsNumber(v) /\ v.h = 0 /\ v.n >= lo /\ v.n <= hi

---------------------------------------------------------------------------
(* The wall clock. *)

DaysIn(month, isLeap) ==
    IF month = 2 THEN (IF isLeap THEN 29 ELSE 28)
    ELSE IF month \in {4, 6, 9, 11} THEN 30 ELSE 31

RealDates(isLeap) ==
    {d \in [month : 1..12, day : 1..31] : d.day <= DaysIn(d.month, isLeap)}

NextDay(d, isLeap) ==
    IF d.day < DaysIn(d.month, isLeap) THEN [d EXCEPT !.day = d.day + 1]
    ELSE [month |-> (d.month % 12) + 1, day |-> 1]

\* Date.getMonth(): 0 = January .. 11 = December; Date.getDate(): day of the month
getMonth(d) == d.month - 1
getDate(d)  == d.day

---------------------------------------------------------------------------
(* Season identifiers, as the host numbers them. *)

Summer      == 0
Autumn      == 1
Winter      == 2
Spring      == 3
LateAutumn  == 4
EarlySpring == 5
Storm       == 6

\* this.seasonsArray.length: seven names in v1.4.0 and v1.3, five in v1.3.0
seasonsArrayLength(g) == IF g = "v130" THEN 5 ELSE 7

\* The first rule of an if / else-if chain that matches; 0 when none does.
FirstMatch(matching) ==
    IF matching = {} THEN 0
    ELSE CHOOSE i \in matching : \A j \in matching : i <= j

---------------------------------------------------------------------------
(* v1.4.0 getSeasonBasedOnDate: the chain of date tests, in source order.   *)
(* month is getMonth() + 1.                                                 *)

\* Variant of Rule140: the September test written day < 30.
Rule140ShortSeptember(i, month, day) ==
    CASE i = 1 -> (month = 12 /\ day >= 1) \/ month = 1 \/ month = 2
      [] i = 2 -> month = 3 \/ month = 4
      [] i = 3 -> month = 5
      [] i = 4 -> month = 6 \/ month = 7 \/ month = 8
      [] i = 5 -> month = 9 /\ day < 30
      [] i = 6 -> month = 10 \/ month = 11

Rule140(i, month, day) ==
    CASE i = 1 -> (month = 12 /\ day >= 1) \/ month = 1 \/ month = 2
      [] i = 2 -> month = 3 \/ month = 4
      [] i = 3 -> month = 5
      [] i = 4 -> month = 6 \/ month = 7 \/ month = 8
      [] i = 5 -> month = 9 /\ day <= 30
      [] i = 6 -> month = 10 \/ month = 11

RuleSeason140 == <<Summer, Autumn, LateAutumn, Winter, EarlySpring, Spring>>

MatchedRule140(d) ==
    FirstMatch({i \in 1..6 : Rule140(i, getMonth(d) + 1, getDate(d))})

\* Variants of StormDraw: the comparison turned round, and made inclusive.
StormDrawInverted(rnd, stormChance) == rnd > stormChance

StormDrawInclusive(rnd, stormChance) == rnd <= stormChance

\* Math.random() < this.modConfig.stormChance, both in units of 1/RandomSteps
StormDraw(rnd, stormChance) == rnd < stormChance

\* Variant of getSeasonBasedOnDate: the chain ends without its final return, so
\* that a date no test matches yields no season (-1 here).
getSeasonBasedOnDateNoDefault(d, rnd, stormChance) ==
    LET r == MatchedRule140(d) IN
    IF r = 1 THEN (IF StormDraw(rnd, stormChance) THEN Storm ELSE Summer)
    ELSE IF r = 0 THEN -1
    ELSE RuleSeason140[r]

getSeasonBasedOnDate(d, rnd, stormChance) ==
    LET r == MatchedRule140(d) IN
    IF r = 1 THEN (IF StormDraw(rnd, stormChance) THEN Storm ELSE Summer)
    ELSE IF r = 0 THEN Summer
    ELSE RuleSeason140[r]

\* Variant of getSeason: if (this.modConfig.forceSeason), which takes 0 for unset.
getSeasonTruthy(cfg, d, rnd) ==
    IF cfg.forceSeason \notin {Null, Num(0)} THEN cfg.forceSeason
    ELSE Num(getSeasonBasedOnDate(d, rnd, cfg.stormChance))

\* v1.4.0 getSeason: a forced season overrides the date-based logic
getSeason(cfg, d, rnd) ==
    IF cfg.forceSeason # Null THEN cfg.forceSeason
    ELSE Num(getSeasonBasedOnDate(d, rnd, cfg.stormChance))

---------------------------------------------------------------------------
(* v1.3 (seven seasons) getRealLifeSeason: month is getMonth(), 0-based.    *)

StormWindow7(month, day) == (month = 4 /\ day >= 15) \/ (month = 5 /\ day < 15)

\* Variant of Rule7: the Winter test without July.
Rule7NoJuly(i, month, day) ==
    CASE i = 1 -> month = 11 \/ month = 0 \/ month = 1
      [] i = 2 -> (month = 2 /\ day < 15) \/ (month = 4 /\ day >= 15)
      [] i = 3 -> month = 2 \/ month = 3 \/ (month = 4 /\ day < 15)
      [] i = 4 -> (month = 5 /\ day < 15) \/ (month = 7 /\ day >= 15)
      [] i = 5 -> month = 5 \/ (month = 7 /\ day < 15)
      [] i = 6 -> month = 8 \/ month = 9 \/ month = 10

Rule7(i, month, day) ==
    CASE i = 1 -> month = 11 \/ month = 0 \/ month = 1
      [] i = 2 -> (month = 2 /\ day < 15) \/ (month = 4 /\ day >= 15)
      [] i = 3 -> month = 2 \/ month = 3 \/ (month = 4 /\ day < 15)
      [] i = 4 -> (month = 5 /\ day < 15) \/ (month = 7 /\ day >= 15)
      [] i = 5 -> month = 5 \/ month = 6 \/ (month = 7 /\ day < 15)
      [] i = 6 -> month = 8 \/ month = 9 \/ month = 10

RuleSeason7 == <<Summer, LateAutumn, Autumn, EarlySpring, Winter, Spring>>

MatchedRule7(d) ==
    FirstMatch({i \in 1..6 : Rule7(i, getMonth(d), getDate(d))})

getRealLifeSeason7(d, enableStorms) ==
    LET r == MatchedRule7(d) IN
    IF enableStorms /\ StormWindow7(getMonth(d), getDate(d)) THEN Storm
    ELSE IF r = 0 THEN Summer
    ELSE RuleSeason7[r]

---------------------------------------------------------------------------
(* v1.3.0 (five seasons) getRealLifeSeason: months only.                    *)

Rule5(i, month) ==
    CASE i = 1 -> month = 11 \/ month = 0 \/ month = 1
      [] i = 2 -> month = 2 \/ month = 3
      [] i = 3 -> month = 4
      [] i = 4 -> month = 5 \/ month = 6 \/ month = 7
      [] i = 5 -> month = 8 \/ month = 9 \/ month = 10

RuleSeason5 == <<Summer, Autumn, LateAutumn, Winter, Spring>>

MatchedRule5(d) == FirstMatch({i \in 1..5 : Rule5(i, getMonth(d))})

getRealLifeSeason5(d) ==
    LET r == MatchedRule5(d) IN
    IF r = 0 THEN Summer ELSE RuleSeason5[r]

---------------------------------------------------------------------------
(* The configuration file and the loaders.                                  *)
(* file.kind is "missing", "malformed" or "ok"; in an "ok" file a key that  *)
(* is absent reads as undefined.  A stormChance counts 1/RandomSteps.       *)

NoFile(kind) ==
    [kind |-> kind, enabled |-> Undefined, forceSeason |-> Undefined,
     stormChance |-> Undefined, enableStorms |-> Undefined]

ForceValues ==
    {Undefined, Null, Str, Half(2)} \cup {Num(k) : k \in {-2, -1, 0} \cup (4..MaxRaw)}

ChanceValues == {Undefined, Num(0), Num(RandomSteps), Num(RandomSteps + 1)}

Switches == {Undefined, Bool(TRUE), Bool(FALSE)}

Files(g) ==
    {NoFile("missing"), NoFile("malformed")} \cup
    [kind : {"ok"}, enabled : Switches, forceSeason : ForceValues,
     stormChance : IF g = "v140" THEN ChanceValues ELSE {Undefined},
     enableStorms : IF g = "v13" THEN Switches ELSE {Undefined}]

\* The defaults the class starts with.
DefaultConfig(g) ==
    IF g = "v140"
    THEN [enabled |-> TRUE, stormChance |-> RandomSteps \div 10,
          forceSeason |-> Null, enableStorms |-> FALSE]
    ELSE [enabled |-> TRUE, stormChance |-> 0,
          forceSeason |-> Num(-1), enableStorms |-> FALSE]

\* v1.4.0 validation of config.forceSeason: a number, >= 0 and <= 6
ForceAccepted140(v) == IsNumber(v) /\ Ge(v, 0) /\ Le(v, 6)

\* v1.4.0 validation of config.stormChance: a number, >= 0 and <= 1
ChanceAccepted(v) == IsNumber(v) /\ Ge(v, 0) /\ Le(v, RandomSteps)

\* v1.4.0 loadModConfig: a missing file and a parse error leave the defaults
loadModConfig(cfg, f) ==
    IF f.kind # "ok" THEN [config |-> cfg, warned |-> FALSE]
    ELSE [config |->
            [enabled      |-> IF f.enabled.t = "boolean" THEN f.enabled.n = 1
                              ELSE cfg.enabled,
             stormChance  |-> IF ChanceAccepted(f.stormChance) THEN f.stormChance.n
                              ELSE cfg.stormChance,
             forceSeason  |-> IF ForceAccepted140(f.forceSeason) THEN f.forceSeason
                              ELSE cfg.forceSeason,
             enableStorms |-> cfg.enableStorms],
          warned |-> ~ForceAccepted140(f.forceSeason) /\ f.forceSeason # Null]

\* v1.3 validation of this.config.forceSeason: what the if-statement rejects
ForceRejected13(v, g) == ~IsNumber(v) \/ Lt(v, -1) \/ Ge(v, seasonsArrayLength(g))

\* v1.3 loadConfig on a file that reads and parses: merge over the current
\* configuration, then validate forceSeason
loadConfig(cfg, f, g) ==
    LET merged == IF f.forceSeason = Undefined THEN cfg.forceSeason ELSE f.forceSeason
        bad    == ForceRejected13(merged, g)
    IN [config |->
          [enabled      |-> IF f.enabled = Undefined THEN cfg.enabled
                            ELSE f.enabled.n = 1,
           enableStorms |-> IF f.enableStorms = Undefined THEN cfg.enableStorms
                            ELSE f.enableStorms.n = 1,
           forceSeason  |-> IF bad THEN Num(-1) ELSE merged,
           stormChance  |-> cfg.stormChance],
        warned |-> bad]

\* v1.3 auto-detection, per generation
getRealLifeSeason(g, cfg, d) ==
    IF g = "v13" THEN getRealLifeSeason7(d, cfg.enableStorms)
    ELSE getRealLifeSeason5(d)

\* Variant of checkForConflict: an in-range value is taken for no conflict.
checkForConflictLenient(expected, slot, g) ==
    IF expected = slot \/ (IsNumber(slot) /\ Lt(slot, seasonsArrayLength(g)))
    THEN "NoConflict"
    ELSE IF slot = Null THEN "RevertedToAuto"
    ELSE "OverriddenInvalid"

\* v1.3 postSptLoad: the classification of the slot against the expectation
checkForConflict(expected, slot, g) ==
    IF expected = slot THEN "NoConflict"
    ELSE IF slot = Null THEN "RevertedToAuto"
    ELSE IF IsNumber(slot) /\ Lt(slot, seasonsArrayLength(g)) THEN "OverriddenValid"
    ELSE "OverriddenInvalid"

---------------------------------------------------------------------------
(* Initial states.                                                          *)

Gens == {"v140", "v13", "v130"}

\* Days just before a season boundary of one of the calendars.
StartDates ==
    {[month |-> 2, day |-> 28], [month |-> 5, day |-> 14], [month |-> 8, day |-> 31],
     [month |-> 11, day |-> 30]}

\* The weather table the host starts with: no season's table of the mod, and
\* none of its adjustments.
HostWeather == [table |-> Null, lessFog |-> FALSE, lessRain |-> FALSE, clearSkies |-> FALSE]

InitMod ==
    /\ uptime = 0
    /\ phase = "start"
    /\ config = DefaultConfig(gen)
    /\ overrideSeason = Null
    /\ finalSelectedSeason = Undefined
    /\ weatherConfig = FALSE
    /\ hook = "none"
    /\ weather = HostWeather
    /\ forceWarned = FALSE
    /\ report = "none"
    /\ calls = 0
    /\ lastOp = "none"

Init ==
    /\ gen \in Gens
    /\ file \in Files(gen)
    /\ fikaPresent \in (IF gen = "v140" THEN BOOLEAN ELSE {FALSE})
    /\ leap \in BOOLEAN
    /\ date \in StartDates
    /\ InitMod

---------------------------------------------------------------------------
(* The tests the callbacks share.                                           *)

\* Variant of ModEnabled: the switch is not consulted.
EnabledCheckSkipped(cfg) == TRUE

\* if (!this.config.enable) return / if (!this.modConfig.enabled) return
ModEnabled(cfg) == cfg.enabled

\* v1.3 postDBLoad: the forced season if one is set, the detected one otherwise
SelectSeason(g, cfg, d) ==
    IF cfg.forceSeason # Num(-1) THEN cfg.forceSeason
    ELSE Num(getRealLifeSeason(g, cfg, d))

---------------------------------------------------------------------------
(* v1.4.0 callbacks.                                                        *)

preSptLoad ==
    /\ gen = "v140"
    /\ phase = "start"
    /\ LET l == loadModConfig(config, file) IN
         /\ config' = l.config
         /\ forceWarned' = (forceWarned \/ l.warned)
         /\ IF ModEnabled(l.config)
            THEN /\ weatherConfig' = TRUE
                 /\ hook' = IF fikaPresent THEN "fika" ELSE "spt"
            ELSE UNCHANGED <<weatherConfig, hook>>
    /\ phase' = "loaded"
    /\ lastOp' = "preSptLoad"
    /\ UNCHANGED <<weather, gen, file, fikaPresent, date, leap, uptime, overrideSeason,
                   finalSelectedSeason, report, calls>>

postSptLoad14 ==
    /\ gen = "v140"
    /\ phase = "loaded"
    /\ phase' = "running"
    /\ lastOp' = "postSptLoad"
    /\ UNCHANGED <<weather, gen, file, fikaPresent, date, leap, uptime, config, overrideSeason,
                   finalSelectedSeason, weatherConfig, hook, forceWarned, report, calls>>

\* Variant of RaidStart: the season is set only while the slot is unset.
RaidStartOnce(rnd) ==
    IF weatherConfig /\ overrideSeason = Null
    THEN /\ overrideSeason' = getSeason(config, date, rnd)
         /\ calls' = calls + 1
    ELSE UNCHANGED <<overrideSeason, calls>>

\* The body shared by the FIKA route action and the wrapped getWeather: reset
\* the slot, resolve, write the season.
RaidStart(rnd) ==
    IF weatherConfig
    THEN /\ overrideSeason' = getSeason(config, date, rnd)
         /\ calls' = calls + 1
    ELSE UNCHANGED <<overrideSeason, calls>>

fikaRaidCreate ==
    /\ gen = "v140"
    /\ phase = "running"
    /\ hook = "fika"
    /\ calls < MaxCalls
    /\ \E rnd \in 0..(RandomSteps - 1) : RaidStart(rnd)
    /\ lastOp' = "fikaRaidCreate"
    /\ UNCHANGED <<weather, gen, file, fikaPresent, date, leap, uptime, phase, config,
                   finalSelectedSeason, weatherConfig, hook, forceWarned, report>>

getWeather ==
    /\ gen = "v140"
    /\ phase = "running"
    /\ hook = "spt"
    /\ calls < MaxCalls
    /\ \E rnd \in 0..(RandomSteps - 1) : RaidStart(rnd)
    /\ lastOp' = "getWeather"
    /\ UNCHANGED <<weather, gen, file, fikaPresent, date, leap, uptime, phase, config,
                   finalSelectedSeason, weatherConfig, hook, forceWarned, report>>

---------------------------------------------------------------------------
(* v1.3 callbacks (seven and five seasons).                                 *)

\* jsonc.parse(vfs.readFile(configPath)) throws on a missing or malformed
\* file and nothing catches it: the callback is left before any assignment.
postDBLoad ==
    /\ gen \in {"v13", "v130"}
    /\ phase \in {"start", "loaded"}
    /\ calls < MaxCalls
    /\ lastOp' = "postDBLoad"
    /\ IF file.kind # "ok"
       THEN /\ phase' = "crashed"
            /\ UNCHANGED <<config, forceWarned, overrideSeason, finalSelectedSeason,
                           calls>>
       ELSE LET l == loadConfig(config, file, gen) IN
            /\ phase' = "loaded"
            /\ config' = l.config
            /\ forceWarned' = (forceWarned \/ l.warned)
            /\ IF ~ModEnabled(l.config)
               THEN UNCHANGED <<overrideSeason, finalSelectedSeason, calls>>
               ELSE /\ overrideSeason' = SelectSeason(gen, l.config, date)
                    /\ finalSelectedSeason' = overrideSeason'
                    /\ calls' = calls + 1
    /\ UNCHANGED <<weather, gen, file, fikaPresent, date, leap, uptime, weatherConfig, hook,
                   report>>

\* Variant of postSptLoad13: the recorded season is written back to the slot.
postSptLoad13Restoring ==
    /\ gen \in {"v13", "v130"}
    /\ phase = "loaded"
    /\ phase' = "running"
    /\ lastOp' = "postSptLoad"
    /\ report' = IF ~ModEnabled(config) THEN report
                 ELSE checkForConflict(finalSelectedSeason, overrideSeason, gen)
    /\ overrideSeason' = IF ModEnabled(config) THEN finalSelectedSeason
                         ELSE overrideSeason
    /\ UNCHANGED <<weather, gen, file, fikaPresent, date, leap, uptime, config,
                   finalSelectedSeason, weatherConfig, hook, forceWarned, calls>>

postSptLoad13 ==
    /\ gen \in {"v13", "v130"}
    /\ phase = "loaded"
    /\ phase' = "running"
    /\ lastOp' = "postSptLoad"
    /\ report' = IF ~ModEnabled(config) THEN report
                 ELSE checkForConflict(finalSelectedSeason, overrideSeason, gen)
    /\ UNCHANGED <<weather, gen, file, fikaPresent, date, leap, uptime, config, overrideSeason,
                   finalSelectedSeason, weatherConfig, hook, forceWarned, calls>>

---------------------------------------------------------------------------
(* The environment: other mods sharing the slot, and the clock.             *)

OtherValues == {Null} \cup {Num(k) : k \in {-1, 1, MaxRaw}}

otherModWrite ==
    /\ phase # "crashed"
    /\ \E v \in OtherValues : overrideSeason' = v
    /\ lastOp' = "otherMod"
    /\ UNCHANGED <<weather, gen, file, fikaPresent, date, leap, uptime, phase, config,
                   finalSelectedSeason, weatherConfig, hook, forceWarned, report, calls>>

clockAdvance ==
    /\ phase # "crashed"
    /\ uptime < MaxDays
    /\ date' = NextDay(date, leap)
    /\ leap' \in (IF date.month = 12 /\ date.day = 31
                  THEN (IF leap THEN {FALSE} ELSE BOOLEAN)
                  ELSE {leap})
    /\ uptime' = uptime + 1
    /\ lastOp' = "clock"
    /\ UNCHANGED <<weather, gen, file, fikaPresent, phase, config, overrideSeason,
                   finalSelectedSeason, weatherConfig, hook, forceWarned, report, calls>>

Next ==
    \/ preSptLoad
    \/ postSptLoad14
    \/ fikaRaidCreate
    \/ getWeather
    \/ postDBLoad
    \/ postSptLoad13
    \/ otherModWrite
    \/ clockAdvance

Spec == Init /\ [][Next]_vars

---------------------------------------------------------------------------
(* The calendar specification: the mod alone with the clock, started on any *)
(* day of a leap or a non-leap year, in auto-detect mode.                   *)

CalendarFiles(g) ==
    [kind : {"ok"}, enabled : {Undefined}, forceSeason : {Undefined},
     stormChance : IF g = "v140" THEN ChanceValues ELSE {Undefined},
     enableStorms : IF g = "v13" THEN {Undefined, Bool(TRUE)} ELSE {Undefined}]

InitCalendar ==
    /\ gen \in Gens
    /\ file \in CalendarFiles(gen)
    /\ fikaPresent \in (IF gen = "v140" THEN BOOLEAN ELSE {FALSE})
    /\ leap \in BOOLEAN
    /\ date \in RealDates(leap)
    /\ InitMod

NextCalendar ==
    \/ preSptLoad
    \/ postSptLoad14
    \/ fikaRaidCreate
    \/ getWeather
    \/ postDBLoad
    \/ postSptLoad13
    \/ clockAdvance

SpecCalendar == InitCalendar /\ [][NextCalendar]_vars

---------------------------------------------------------------------------
(* v1.2.0: four seasons.  getRealLifeSeason compares the Date now with the  *)
(* first days of December, March, June and September of the same year.  A   *)
(* Date that holds no calendar day (an Invalid Date) compares false with    *)
(* every Date.                                                              *)

IsDate(d) == d \in RealDates(TRUE)

\* a >= b and a < b on Dates of one year, a being now
DateGe(a, b) == IsDate(a) /\ (a.month > b.month \/ (a.month = b.month /\ a.day >= b.day))
DateLt(a, b) == IsDate(a) /\ (a.month < b.month \/ (a.month = b.month /\ a.day < b.day))

\* const seasons = { SUMMER, AUTUMN, WINTER, SPRING }
seasons ==
    [SUMMER |-> [month |-> 12, day |-> 1], AUTUMN |-> [month |-> 3, day |-> 1],
     WINTER |-> [month |-> 6, day |-> 1],  SPRING |-> [month |-> 9, day |-> 1]]

Rule12(i, now) ==
    CASE i = 1 -> DateGe(now, seasons.SUMMER) \/ DateLt(now, seasons.AUTUMN)
      [] i = 2 -> DateGe(now, seasons.AUTUMN) /\ DateLt(now, seasons.WINTER)
      [] i = 3 -> DateGe(now, seasons.WINTER) /\ DateLt(now, seasons.SPRING)
      [] i = 4 -> DateGe(now, seasons.SPRING) /\ DateLt(now, seasons.SUMMER)

RuleSeason12 == <<Summer, Autumn, Winter, Spring>>

MatchedRule12(now) == FirstMatch({i \in 1..4 : Rule12(i, now)})

\* "Defaulting to SUMMER due to unexpected date range"; the catch block
\* returns 0 as well
getRealLifeSeason12(now) ==
    LET r == MatchedRule12(now) IN
    IF r = 0 THEN Summer ELSE RuleSeason12[r]

\* config.json of v1.2.0 is imported when the module is loaded, so that its
\* values are fixed before any callback runs.  The module does not load at
\* all without weatherConfigAdvanced.json; the model starts after that test.
Files12 ==
    [kind : {"ok"}, enabled : {Bool(TRUE), Bool(FALSE)}, forceSeason : {Undefined},
     stormChance : {Undefined}, enableStorms : {Undefined},
     lessFog : BOOLEAN, lessRain : BOOLEAN, clearSkies : BOOLEAN]

ImportedConfig(f) ==
    [enabled |-> f.enabled.n = 1, stormChance |-> 0, forceSeason |-> Num(-1),
     enableStorms |-> FALSE]

\* weatherBySeason[SeasonMap[season]]: the table of a season, as shipped
weatherBySeason(season) ==
    [table |-> Num(season), lessFog |-> FALSE, lessRain |-> FALSE, clearSkies |-> FALSE]

\* Days just before a season boundary of the v1.2.0 calendar.
StartDates12 ==
    {[month |-> 2, day |-> 28], [month |-> 5, day |-> 31], [month |-> 8, day |-> 31],
     [month |-> 11, day |-> 30]}

InitV12 ==
    /\ gen = "v120"
    /\ file \in Files12
    /\ fikaPresent = FALSE
    /\ leap \in BOOLEAN
    /\ date \in StartDates12
    /\ uptime = 0
    /\ phase = "start"
    /\ config = ImportedConfig(file)
    /\ overrideSeason = Null
    /\ finalSelectedSeason = Undefined
    /\ weatherConfig = FALSE
    /\ hook = "none"
    /\ weather = HostWeather
    /\ forceWarned = FALSE
    /\ report = "none"
    /\ calls = 0
    /\ lastOp = "none"

\* v1.2.0 preSptLoad: the season and its weather table are written first; the
\* switch decides only whether the route is registered.
preSptLoad12 ==
    /\ gen = "v120"
    /\ phase = "start"
    /\ LET season == getRealLifeSeason12(date) IN
         /\ overrideSeason' = Num(season)
         /\ weather' = weatherBySeason(season)
    /\ hook' = (IF ModEnabled(config) THEN "offlineEnd" ELSE hook)
    /\ phase' = "running"
    /\ calls' = calls + 1
    /\ lastOp' = "preSptLoad"
    /\ UNCHANGED <<gen, file, fikaPresent, date, leap, uptime, config,
                   finalSelectedSeason, weatherConfig, forceWarned, report>>

\* The action of the route /client/match/offline/end.
offlineEnd12 ==
    /\ gen = "v120"
    /\ phase = "running"
    /\ hook = "offlineEnd"
    /\ calls < MaxCalls
    /\ LET season == getRealLifeSeason12(date) IN
         /\ overrideSeason' = Num(season)
         /\ weather' = [weatherBySeason(season) EXCEPT
                          !.lessFog = file.lessFog, !.lessRain = file.lessRain,
                          !.clearSkies = file.clearSkies]
    /\ calls' = calls + 1
    /\ lastOp' = "offlineEnd"
    /\ UNCHANGED <<gen, file, fikaPresent, date, leap, uptime, phase, config,
                   finalSelectedSeason, weatherConfig, hook, forceWarned, report>>

NextV12 ==
    \/ preSptLoad12
    \/ offlineEnd12
    \/ otherModWrite
    \/ clockAdvance

SpecV12 == InitV12 /\ [][NextV12]_vars

---------------------------------------------------------------------------
(* The resolvers as functions of the date: each generation's date-based     *)
(* resolver applied once to a month/day pair taken from a domain that also  *)
(* holds pairs no calendar has.                                             *)

MaxMonth == 13
MaxDay == 32

CalendarInputs == [month : 0..MaxMonth, day : 0..MaxDay]

ResolverGens == Gens \cup {"v120"}

\* The configuration the resolver reads, as the loader of the generation
\* leaves it.
LoadedConfig(g, f) ==
    IF g = "v140" THEN loadModConfig(DefaultConfig(g), f).config
    ELSE IF g = "v120" THEN ImportedConfig(f)
    ELSE loadConfig(DefaultConfig(g), f, g).config

\* The date-based resolver of a generation.
ResolveByDate(g, cfg, d, rnd) ==
    IF g = "v140" THEN getSeasonBasedOnDate(d, rnd, cfg.stormChance)
    ELSE IF g = "v120" THEN getRealLifeSeason12(d)
    ELSE getRealLifeSeason(g, cfg, d)

\* The rule of the generation's chain that a date matches; 0 when the chain
\* falls through to its final return.
MatchedRule(g, cfg, d) ==
    IF g = "v140" THEN MatchedRule140(d)
    ELSE IF g = "v120" THEN MatchedRule12(d)
    ELSE IF g = "v130" THEN MatchedRule5(d)
    ELSE IF cfg.enableStorms /\ StormWindow7(getMonth(d), getDate(d)) THEN 7
    ELSE MatchedRule7(d)

InitResolver ==
    /\ gen \in ResolverGens
    /\ file \in (IF gen = "v120" THEN Files12 ELSE CalendarFiles(gen))
    /\ fikaPresent = FALSE
    /\ leap \in BOOLEAN
    /\ date \in CalendarInputs
    /\ uptime = 0
    /\ phase = "running"
    /\ config = LoadedConfig(gen, file)
    /\ overrideSeason = Null
    /\ finalSelectedSeason = Undefined
    /\ weatherConfig = FALSE
    /\ hook = "none"
    /\ weather = HostWeather
    /\ forceWarned = FALSE
    /\ report = "none"
    /\ calls = 0
    /\ lastOp = "none"

resolve ==
    /\ calls = 0
    /\ \E rnd \in 0..(RandomSteps - 1) :
         overrideSeason' = Num(ResolveByDate(gen, config, date, rnd))
    /\ calls' = calls + 1
    /\ lastOp' = "resolve"
    /\ UNCHANGED <<weather, gen, file, fikaPresent, date, leap, uptime, phase, config,
                   finalSelectedSeason, weatherConfig, hook, forceWarned, report>>

NextResolver == resolve

SpecResolver == InitResolver /\ [][NextResolver]_vars

---------------------------------------------------------------------------
(* Properties.                                                              *)

\* The Southern Hemisphere calendar of v1.4.0, by month.
CanonicalSeason(d) ==
    CASE d.month \in {12, 1, 2} -> Summer
      [] d.month \in {3, 4}     -> Autumn
      [] d.month = 5            -> LateAutumn
      [] d.month \in {6, 7, 8}  -> Winter
      [] d.month = 9            -> EarlySpring
      [] d.month \in {10, 11}   -> Spring

\* A v1.4.0 raid-start hook has just run in auto-detect mode.
RaidJustStarted == gen = "v140" /\ lastOp \in {"fikaRaidCreate", "getWeather"}
AutoRaid == RaidJustStarted /\ config.forceSeason = Null

\* C1: in v1.4.0, auto-detect, stormChance = 0: every real date of a leap and of
\* a non-leap year is claimed by exactly one range of the chain, and a raid
\* start on that date writes the season of the canonical calendar.
C1_CalendarPartition ==
    (AutoRaid /\ config.stormChance = 0) =>
        /\ Cardinality({i \in 1..6 : Rule140(i, date.month, date.day)}) = 1
        /\ overrideSeason = Num(CanonicalSeason(date))

C1_Witness ==
    /\ AutoRaid /\ config.stormChance = 0
    /\ leap /\ date = [month |-> 2, day |-> 29]
    /\ overrideSeason = Num(Summer)

\* C4: in v1.4.0, auto-detect, stormChance = 1.0: a raid start on any December,
\* January or February date writes Storm, whatever the draw.
C4_CertainStorm ==
    (AutoRaid /\ config.stormChance = RandomSteps /\ date.month \in {12, 1, 2})
        => overrideSeason = Num(Storm)

C4_Witness ==
    /\ AutoRaid /\ config.stormChance = RandomSteps
    /\ date = [month |-> 12, day |-> 1]
    /\ overrideSeason = Num(Storm)

\* C5: in v1.4.0, auto-detect, stormChance = 0.0: no raid start writes Storm, on
\* any date, for any draw, however many raids have started.
C5_NoStorm ==
    (AutoRaid /\ config.stormChance = 0) => overrideSeason # Num(Storm)

C5_Witness ==
    /\ AutoRaid /\ config.stormChance = 0
    /\ date.month = 1 /\ calls = MaxCalls
    /\ overrideSeason = Num(Summer)

\* The auto-detect sentinel of a generation: null in v1.4.0, -1 in v1.3.
Auto(g) == IF g = "v140" THEN Null ELSE Num(-1)

\* v is an identifier of the generation's enabled season set.
IsSeasonId(v, g) == IsIntIn(v, 0, seasonsArrayLength(g) - 1)

\* The mod has just resolved a season and written it to the slot.
JustResolved ==
    /\ lastOp \in {"fikaRaidCreate", "getWeather", "postDBLoad"}
    /\ phase # "crashed"
    /\ config.enabled

\* C2: when the file's forceSeason is a season id X of the enabled set, every
\* resolution writes X to the slot, on every date and for every draw: date
\* rules and storm sampling are bypassed.
C2_ForcedSeason ==
    (JustResolved /\ IsSeasonId(file.forceSeason, gen))
        => overrideSeason = file.forceSeason

C2_Witness ==
    /\ RaidJustStarted
    /\ file.forceSeason = Num(Summer)
    /\ config.stormChance = RandomSteps
    /\ date.month = 2
    /\ overrideSeason = Num(Summer)

\* A raw forceSeason C3 lists as bad: a number below the valid range or
\* at or above the number of enabled seasons, or a value that is no number and
\* not the auto sentinel.
ListedBad(v, g) ==
    /\ v # Undefined
    /\ v # Auto(g)
    /\ \/ ~IsNumber(v)
       \/ Lt(v, -1) \/ (g = "v140" /\ Lt(v, 0))
       \/ Ge(v, seasonsArrayLength(g))

ConfigLoaded == phase \in {"loaded", "running"} /\ file.kind = "ok"

\* The part of C3 about the listed values: each is replaced by the auto
\* sentinel and warned about.
C3_ListedValuesRejected ==
    (ConfigLoaded /\ ListedBad(file.forceSeason, gen))
        => (config.forceSeason = Auto(gen) /\ forceWarned)

\* C3: after configuration load every bad raw forceSeason has become the auto
\* sentinel with a warning; the effective forceSeason is always the sentinel or
\* a season id of the enabled set; and the mod writes no other value to the slot.
C3_BadForceSeasonNormalized ==
    /\ C3_ListedValuesRejected
    /\ config.forceSeason = Auto(gen) \/ IsSeasonId(config.forceSeason, gen)
    /\ JustResolved => IsSeasonId(overrideSeason, gen)

\* The v1.3 conflict check has just run with the mod enabled.
ConflictChecked ==
    gen \in {"v13", "v130"} /\ lastOp = "postSptLoad" /\ config.enabled

Warnings == {"RevertedToAuto", "OverriddenValid", "OverriddenInvalid"}

\* C6: v1.3, mod enabled: postSptLoad running right after postDBLoad, with no
\* write to the slot in between, warns of nothing; and it warns exactly when
\* the slot differs from the value postDBLoad recorded.
C6_ConflictIffSlotDiffers ==
    [][(postSptLoad13 /\ config.enabled) =>
          /\ (report' \in Warnings) <=> (overrideSeason # finalSelectedSeason)
          /\ (report' = "NoConflict") <=> (overrideSeason = finalSelectedSeason)
          /\ lastOp = "postDBLoad" => report' = "NoConflict"]_vars

C6_Witness ==
    /\ ConflictChecked
    /\ report = "NoConflict"
    /\ calls = 1
    /\ overrideSeason = finalSelectedSeason

\* What the classification by range membership is to report for a slot value
\* that differs from the recorded expectation.
ClassifiedByRange(slot, g) ==
    IF slot = Null THEN "RevertedToAuto"
    ELSE IF IsSeasonId(slot, g) THEN "OverriddenValid"
    ELSE "OverriddenInvalid"

\* C7: a slot value that differs from the recorded expectation is classified
\* by range membership: null as reverted to Auto, a value of
\* 0..(number of seasons - 1) as a valid override, every other value, negative
\* or too large, as an invalid override.
C7_ClassifiedByRange ==
    (ConflictChecked /\ overrideSeason # finalSelectedSeason)
        => report = ClassifiedByRange(overrideSeason, gen)

\* What the code does hold to: null, then "below seasonsArray.length".
C7_ClassifiedByUpperBound ==
    (ConflictChecked /\ overrideSeason # finalSelectedSeason)
        => report = (IF overrideSeason = Null THEN "RevertedToAuto"
                     ELSE IF overrideSeason.n < seasonsArrayLength(gen)
                          THEN "OverriddenValid"
                     ELSE "OverriddenInvalid")

\* C8: the conflict check is purely diagnostic: it leaves the slot, the
\* recorded expectation and the configuration as they were, and hands control
\* back to the host.
C8_CheckIsDiagnostic ==
    [][(postSptLoad13 \/ postSptLoad14) =>
          /\ overrideSeason' = overrideSeason
          /\ finalSelectedSeason' = finalSelectedSeason
          /\ config' = config
          /\ phase' = "running"]_vars

C8_Witness ==
    /\ ConflictChecked
    /\ report = "OverriddenValid"
    /\ overrideSeason = Num(1)
    /\ finalSelectedSeason = Num(Summer)

\* The loaded configuration switches the mod off.
Disabled == phase \in {"loaded", "running"} /\ ~config.enabled

\* C9: a mod disabled in its configuration is inert: no resolution is made, no
\* hook is installed, nothing is recorded or reported, and no callback of the
\* mod changes the slot.
C9_DisabledIsInert ==
    /\ [](Disabled =>
            /\ calls = 0
            /\ hook = "none"
            /\ weatherConfig = FALSE
            /\ finalSelectedSeason = Undefined
            /\ report = "none")
    /\ [][(Disabled' /\ lastOp' \notin {"otherMod", "clock"})
            => overrideSeason' = overrideSeason]_vars

C9_Witness ==
    /\ Disabled
    /\ phase = "running"
    /\ lastOp = "postSptLoad"
    /\ gen = "v13"
    /\ overrideSeason = Num(MaxRaw)

\* The seasons a v1.4.0 resolution may return on date d under configuration cfg.
Resolvable(cfg, d) ==
    IF cfg.forceSeason # Null THEN {cfg.forceSeason}
    ELSE IF CanonicalSeason(d) = Summer
         THEN (IF cfg.stormChance < RandomSteps THEN {Num(Summer)} ELSE {})
              \cup (IF cfg.stormChance > 0 THEN {Num(Storm)} ELSE {})
         ELSE {Num(CanonicalSeason(d))}

\* C10: v1.4.0, mod enabled: a raid-start hook is installed, and at the end of
\* every hook invocation the slot holds a season resolved for the date of that
\* invocation, also after the date has rolled over into another season.
C10_NeverStale ==
    /\ (gen = "v140" /\ phase \in {"loaded", "running"} /\ config.enabled)
          => hook \in {"fika", "spt"}
    /\ RaidJustStarted => overrideSeason \in Resolvable(config, date)

C10_Witness ==
    /\ RaidJustStarted
    /\ uptime = 1 /\ calls = 2
    /\ date = [month |-> 3, day |-> 1]
    /\ overrideSeason = Num(Autumn)

\* The load-time entry point of the generation has just completed.
LoadCompleted == lastOp \in {"preSptLoad", "postDBLoad"} /\ phase = "loaded"

\* The values a resolution at load may write on date d under configuration cfg.
ResolvedValues(g, cfg, d) ==
    IF g = "v140" THEN Resolvable(cfg, d) ELSE {SelectSeason(g, cfg, d)}

\* C11: with the mod enabled, once the load-time entry point (v1.3 postDBLoad,
\* v1.4.0 preSptLoad) has completed and before any raid start, the resolver
\* has been called and the slot holds the season it resolved, not the unset
\* sentinel or an untouched host value.
C11_ResolvedAtLoad ==
    (LoadCompleted /\ config.enabled) =>
        /\ calls >= 1
        /\ overrideSeason # Null
        /\ overrideSeason \in ResolvedValues(gen, config, date)

\* The v1.3 half of C11, which the code keeps.
C11_ResolvedAtLoad13 ==
    (LoadCompleted /\ config.enabled /\ gen # "v140") =>
        /\ calls >= 1
        /\ overrideSeason # Null
        /\ overrideSeason \in ResolvedValues(gen, config, date)

\* A date-based resolver has just been applied to the month/day pair in date.
Resolved == lastOp = "resolve"

\* C12: the resolver never fails its caller: for every month/day pair that no
\* rule of the chain matches (a month outside 1..12, a day no month has),
\* resolution returns Summer (0) and raises nothing.
C12_FallbackIsSummer ==
    (Resolved /\ MatchedRule(gen, config, date) = 0) =>
        /\ overrideSeason = Num(Summer)
        /\ phase = "running"

C12_Witness ==
    /\ Resolved
    /\ gen = "v140"
    /\ date = [month |-> MaxMonth, day |-> 1]
    /\ MatchedRule(gen, config, date) = 0
    /\ overrideSeason = Num(Summer)

\* The same for an Invalid Date in v1.2.0.
C12_Witness12 ==
    /\ Resolved
    /\ gen = "v120"
    /\ date = [month |-> 2, day |-> 30]
    /\ MatchedRule(gen, config, date) = 0
    /\ overrideSeason = Num(Summer)

\* The load-time entry point has just run on a file that is missing or does
\* not parse.
LoadedWithoutFile == lastOp \in {"preSptLoad", "postDBLoad"} /\ file.kind # "ok"

\* C13: configuration loading never throws past its boundary: on a missing or
\* malformed file the loader returns normally and the effective configuration
\* is the defaults, in v1.4.0 loadModConfig and in v1.3 loadConfig.
C13_LoaderNeverThrows ==
    LoadedWithoutFile =>
        /\ phase # "crashed"
        /\ config = DefaultConfig(gen)

\* The v1.4.0 half of C13, which the code keeps.
C13_LoaderNeverThrows140 ==
    (LoadedWithoutFile /\ gen = "v140") =>
        /\ phase = "loaded"
        /\ config = DefaultConfig(gen)
        /\ config.enabled /\ config.forceSeason = Null
        /\ config.stormChance = RandomSteps \div 10

\* The Calendar domain: month 1..12, day 1..31.
CalendarDomain == [month : 1..12, day : 1..31]

SeasonWithoutStorms(g, cfg, d) ==
    IF g = "v140" THEN getSeasonBasedOnDate(d, 0, 0)
    ELSE getRealLifeSeason(g, [cfg EXCEPT !.enableStorms = FALSE], d)

\* A resolution in auto-detect mode has just written Storm.
StormResolved ==
    JustResolved /\ config.forceSeason = Auto(gen) /\ overrideSeason = Num(Storm)

\* C15: in auto-detect mode Storm is produced only inside Summer: whenever a
\* resolution writes Storm, the same date resolved with storms turned off is
\* Summer, in v1.4.0 and in v1.3 with enableStorms.
C15_StormOnlyInSummer ==
    StormResolved => SeasonWithoutStorms(gen, config, date) = Summer

\* The v1.4.0 half of C15, which the code keeps.
C15_StormOnlyInSummer140 ==
    (StormResolved /\ gen = "v140") => SeasonWithoutStorms(gen, config, date) = Summer

\* The v1.3 seven-season calendar of README 1.3.0.
DocumentedSeason13(d) ==
    CASE d.month \in {12, 1, 2}                                    -> Summer
      [] d.month \in {3, 4} \/ (d.month = 5 /\ d.day <= 14)        -> Autumn
      [] d.month = 5 /\ d.day >= 15                                -> LateAutumn
      [] d.month \in {6, 7} \/ (d.month = 8 /\ d.day <= 14)        -> Winter
      [] d.month = 8 /\ d.day >= 15                                -> EarlySpring
      [] d.month \in {9, 10, 11}                                   -> Spring

\* v1.3 (seven seasons) postDBLoad has just resolved by date, storms off.
AutoResolved13 ==
    /\ JustResolved /\ gen = "v13"
    /\ config.forceSeason = Num(-1) /\ ~config.enableStorms

\* C16: v1.3 with seven seasons, forceSeason = -1 and enableStorms = false:
\* every date of the year resolves according to the calendar of README 1.3.0.
C16_DocumentedCalendar13 ==
    AutoResolved13 => overrideSeason = Num(DocumentedSeason13(date))

\* The dates on which the v1.3 resolver departs from that calendar are
\* March 1 - 14 and June 1 - 14.
C16_DeparturesFromCalendar13 ==
    AutoResolved13 =>
        (overrideSeason # Num(DocumentedSeason13(date))
            <=> (date.month \in {3, 6} /\ date.day < 15))

\* A step of the v1.2.0 mod itself while enable = false.
DisabledStep12 ==
    gen = "v120" /\ ~config.enabled /\ lastOp' \notin {"otherMod", "clock"}

\* C17: v1.2.0 with enable = false: preSptLoad and every later callback of the
\* mod leave the slot and the host's weather table as the host had them.
C17_DisabledLeavesHostState ==
    [][DisabledStep12 => (overrideSeason' = overrideSeason /\ weather' = weather)]_vars

\* What enable = false does switch off in v1.2.0: the route is not registered,
\* so that the only write of the mod is the one of preSptLoad.
C17_DisabledRegistersNoRoute ==
    (gen = "v120" /\ ~config.enabled) => (hook = "none" /\ calls <= 1)

\* v1.3.0 (five seasons) postDBLoad has just completed with the mod enabled.
PostDBLoadCompleted130 == JustResolved /\ gen = "v130" /\ lastOp = "postDBLoad"

\* C18: v1.3.0, where Early Spring and Storm are disabled: for every content of
\* the configuration file and every date the slot is in {0, 1, 2, 3, 4} after
\* postDBLoad; a configured forceSeason of 5 or 6 is rejected at load and the
\* season is detected from the date.
C18_SlotAmongFiveSeasons ==
    PostDBLoadCompleted130 =>
        /\ IsIntIn(overrideSeason, Summer, LateAutumn)
        /\ (file.forceSeason \in {Num(EarlySpring), Num(Storm)} =>
                /\ forceWarned
                /\ config.forceSeason = Num(-1)
                /\ overrideSeason = Num(getRealLifeSeason5(date)))

\* The part of C18 about the disabled seasons, which the code keeps: 5 and 6
\* are rejected, and neither is ever written.
C18_DisabledSeasonsRejected ==
    PostDBLoadCompleted130 =>
        /\ overrideSeason \notin {Num(EarlySpring), Num(Storm)}
        /\ (file.forceSeason \in {Num(EarlySpring), Num(Storm)} =>
                /\ forceWarned
                /\ config.forceSeason = Num(-1)
                /\ overrideSeason = Num(getRealLifeSeason5(date)))

\* A wrapped getWeather has run right after another one: same date, same
\* configuration, nothing in between.
RepeatedGetWeather == getWeather /\ lastOp = "getWeather"

\* C19: v1.4.0 single-player: the season is set once per raid start; a further
\* invocation of the wrapped getWeather on the same date with the same
\* configuration leaves the slot at the value chosen before.
C19_SetOncePerRaid ==
    [][RepeatedGetWeather => overrideSeason' = overrideSeason]_vars

\* The flips of C19 are between Summer and Storm only: outside the Summer
\* months, and with a stormChance of 0 or 1, a repeated invocation writes the
\* same value again.
C19_FlipsOnlyBySampling ==
    [][(RepeatedGetWeather /\ overrideSeason' # overrideSeason)
          => /\ {overrideSeason, overrideSeason'} = {Num(Summer), Num(Storm)}
             /\ config.stormChance \in 1..(RandomSteps - 1)]_vars

\* v1.3 postDBLoad has just completed with the mod enabled.
PostDBLoadCompleted13 ==
    JustResolved /\ gen \in {"v13", "v130"} /\ lastOp = "postDBLoad"

\* C20: in the v1.3 generations, whenever postDBLoad completes with the mod
\* enabled, finalSelectedSeason equals the slot, and that value is a season id
\* in 0..(number of seasons - 1), never null; for every configuration and date,
\* and again after a repeated postDBLoad.
C20_ExpectationIsSlot ==
    PostDBLoadCompleted13 =>
        /\ finalSelectedSeason = overrideSeason
        /\ overrideSeason # Null
        /\ IsSeasonId(overrideSeason, gen)

\* The part of C20 that the code keeps: the expectation equals the slot, which
\* holds a number of the accepted range and never null.
C20_ExpectationIsSlotInRange ==
    PostDBLoadCompleted13 =>
        /\ finalSelectedSeason = overrideSeason
        /\ overrideSeason # Null
        /\ IsNumber(overrideSeason)
        /\ Ge(overrideSeason, -1) /\ Lt(overrideSeason, seasonsArrayLength(gen))

====
